---- MODULE Spec2Model ----
(***************************************************************************)
(* Model of the MonitorBench flow (src/monitorbench.py): the step graph    *)
(* declared by the self.next calls and the join steps, and the bodies of   *)
(* the load variants (fan-out over parallel_map, temporary files, memory   *)
(* mappings, raw memory, scheduled time), and the helpers spin_cpu and     *)
(* spin_cpu_percentage.                                                    *)
(*                                                                         *)
(* Spec        the whole pipeline; a variant's body is one step that       *)
(*             either reaches its self.next call or raises.                *)
(* FairSpec    Spec with the scheduling assumption that a queued task is   *)
(*             launched and a running task terminates.                     *)
(* VariantSpec one variant, chosen in Init, executed statement by          *)
(*             statement between its launch and its termination.           *)
(* SpinSpec    one call of spin_cpu; FairSpinSpec with an interpreter that *)
(*             keeps running.                                              *)
(* PctSpec     one call of spin_cpu_percentage.                            *)
(* TimedSpec   the pipeline on the wall clock; TimedVariantSpec follows    *)
(*             the flow either on the wall clock or inside one variant.    *)
(***************************************************************************)
EXTENDS Integers, Sequences, FiniteSets, TLC

VARIABLES status, arrived, invoked, cur, pc, workers, tmpFiles, fOpen, mapOpen, written, iter,
          sched, held, raw, badUse, unflushed, filesMade, level,
          spin, pct, timing, spin_secs, clock, startAt, finishAt

pipeVars == <<status, arrived, invoked>>
\* What a step body schedules, holds and has written besides files and mappings.
resVars == <<sched, held, raw, badUse, unflushed, filesMade, level>>
bodyVars == <<cur, pc, workers, tmpFiles, fOpen, mapOpen, written, iter, resVars>>
\* One call of spin_cpu, one call of spin_cpu_percentage, and the wall clock
\* of a run of the flow.
timedVars == <<timing, spin_secs, clock, startAt, finishAt>>
offVars == <<spin, pct, timedVars>>
vars == <<status, arrived, invoked, cur, pc, workers, tmpFiles, fOpen, mapOpen, written, iter,
          resVars, offVars>>

----------------------------------------------------------------------------
(* The step graph.                                                         *)

\* The nine CPU load steps of the class.
CpuVariants ==
    {"cpu_1cores", "cpu_2cores", "cpu_1cores_halfload", "cpu_2cores_halfload",
     "cpu_8cores", "cpu_8cores_underprovisioned", "cpu_unspecified",
     "cpu_fraction", "cpu_staircase"}

\* The eight memory load steps of the class.
MemVariants ==
    {"mem_flat_2gb", "mem_flat_8gb", "mem_staircase_8gb", "mem_increasing_rss",
     "mem_spike_2gb", "mem_mmap_8gb_untouch", "mem_mmap_8gb_touch_incrementally",
     "mem_mmap_8gb_touch_all"}

\* The two I/O load steps of the class.
IoVariants == {"io_write_8gb", "io_write_8gb_mixed_cpu"}

Variants == CpuVariants \cup MemVariants \cup IoVariants

\* Steps that take `inputs`: they run once for all their incoming branches.
JoinSteps == {"cpu_join", "mem_join", "io_join"}

Steps == Variants \cup JoinSteps \cup {"start", "start_mem", "start_io", "end"}

\* The targets of each step's self.next call.
start_next ==
    {"cpu_1cores", "cpu_2cores", "cpu_1cores_halfload", "cpu_2cores_halfload",
     "cpu_8cores", "cpu_8cores_underprovisioned", "cpu_unspecified",
     "cpu_fraction", "cpu_staircase"}

cpu_join_next_skip == {"start_io"}

cpu_join_next == {"start_mem"}

start_mem_next ==
    {"mem_flat_2gb", "mem_flat_8gb", "mem_staircase_8gb", "mem_increasing_rss",
     "mem_spike_2gb", "mem_mmap_8gb_untouch", "mem_mmap_8gb_touch_incrementally",
     "mem_mmap_8gb_touch_all"}

mem_join_next == {"start_io"}

start_io_next == {"io_write_8gb", "io_write_8gb_mixed_cpu"}

io_join_next_none == {}

io_join_next == {"end"}

\* end has no self.next call.
end_next == {}

NextOf(s) ==
    CASE s = "start" -> start_next
      [] s \in CpuVariants -> {"cpu_join"}
      [] s = "cpu_join" -> cpu_join_next
      [] s = "start_mem" -> start_mem_next
      [] s \in MemVariants -> {"mem_join"}
      [] s = "mem_join" -> mem_join_next
      [] s = "start_io" -> start_io_next
      [] s \in IoVariants -> {"io_join"}
      [] s = "io_join" -> io_join_next
      [] OTHER -> end_next

\* The branches that name step t in their self.next call.
Preds(t) == {s \in Steps : t \in NextOf(s)}

JoinReady_First(t, arr) == arr # {}

\* A join step runs once every branch leading into it has handed over.
JoinReady(t, arr) == Preds(t) \subseteq arr

----------------------------------------------------------------------------
(* The pipeline: one task per step.                                        *)

StatusValues == {"pending", "queued", "running", "done", "failed"}

\* The arrivals at the join steps after step s has executed self.next.
ArrivedAfter(s) ==
    [t \in JoinSteps |-> IF t \in NextOf(s) THEN arrived[t] \cup {s} ELSE arrived[t]]

\* Which steps the self.next call of step s makes runnable.
Triggered(s, t) ==
    /\ t \in NextOf(s)
    /\ status[t] = "pending"
    /\ (t \in JoinSteps => JoinReady(t, ArrivedAfter(s)[t]))

\* The scheduler starts the task of a step that has been handed over to.
Launch(s) ==
    /\ status[s] = "queued"
    /\ status' = [status EXCEPT ![s] = "running"]
    /\ invoked' = [invoked EXCEPT ![s] = @ + 1]
    /\ UNCHANGED arrived

\* The body of step s returns after its self.next call.
Finish(s) ==
    /\ status[s] = "running"
    /\ status' = [t \in Steps |->
                    IF t = s THEN "done"
                    ELSE IF Triggered(s, t) THEN "queued" ELSE status[t]]
    /\ arrived' = ArrivedAfter(s)
    /\ UNCHANGED invoked

FailRetry(s) ==
    /\ status[s] = "running"
    /\ s \in Variants
    /\ status' = [status EXCEPT ![s] = "queued"]
    /\ UNCHANGED <<arrived, invoked>>

FailSwallowed(s) ==
    /\ status[s] = "running"
    /\ s \in Variants
    /\ status' = [t \in Steps |->
                    IF t = s THEN "failed"
                    ELSE IF Triggered(s, t) THEN "queued" ELSE status[t]]
    /\ arrived' = ArrivedAfter(s)
    /\ UNCHANGED invoked

\* The body of load step s raises: no handler, self.next is not reached.
Fail(s) ==
    /\ status[s] = "running"
    /\ s \in Variants
    /\ status' = [status EXCEPT ![s] = "failed"]
    /\ UNCHANGED <<arrived, invoked>>

\* MonitorBench() returned: the end step has run.
Ended == status["end"] = "done"

PipeInit ==
    /\ status = [s \in Steps |-> IF s = "start" THEN "queued" ELSE "pending"]
    /\ arrived = [t \in JoinSteps |-> {}]
    /\ invoked = [s \in Steps |-> 0]

\* Nothing scheduled, held, allocated or written yet.
ResInit ==
    /\ sched = [lin |-> 0, flr |-> 0, fix |-> 0]
    /\ held = 0
    /\ raw = "none"
    /\ badUse = FALSE
    /\ unflushed = 0
    /\ filesMade = 0
    /\ level = -1

BodyIdle ==
    /\ cur = "none"
    /\ pc = "idle"
    /\ workers = << >>
    /\ tmpFiles = 0
    /\ fOpen = FALSE
    /\ mapOpen = FALSE
    /\ written = 0
    /\ iter = 0
    /\ ResInit

\* No call of spin_cpu is being followed.
SpinIdle == spin = [pc |-> "off"]

\* No call of spin_cpu_percentage is being followed.
PctIdle == pct = [pc |-> "off"]

\* The wall clock is not being followed.
TimedIdle ==
    /\ timing = FALSE
    /\ spin_secs = 0
    /\ clock = 0
    /\ startAt = [v \in Variants |-> -1]
    /\ finishAt = [v \in Variants |-> -1]

OffIdle == SpinIdle /\ PctIdle /\ TimedIdle

Init == PipeInit /\ BodyIdle /\ OffIdle

StepLaunch == \E s \in Steps : Launch(s) /\ UNCHANGED <<bodyVars, offVars>>

StepFinish == \E s \in Steps : Finish(s) /\ UNCHANGED <<bodyVars, offVars>>

StepFail == \E s \in Steps : Fail(s) /\ UNCHANGED <<bodyVars, offVars>>

Next == StepLaunch \/ StepFinish \/ StepFail

Spec == Init /\ [][Next]_vars

FairSpec == Spec /\ WF_vars(Next)

----------------------------------------------------------------------------
(* The bodies of the load variants, statement by statement.                *)

\* The loop bounds and sizes the step bodies use.
\* cpu_staircase: for i in range(10)
StaircaseLevels == 10
\* mem_staircase_8gb: for i in range(16)
StaircaseChunks == 16
\* mem_increasing_rss: range(2_000_000_000), counted in the blocks of
\* 10_000_000 iterations that each begin with a _print_mem call.
FillBlocks == 200
\* num_gigs: the slices read by mem_mmap_8gb_touch_incrementally.
NumGigs == 8
\* size_in_mb of every _make_file call: 8000, or num_gigs * 1000.
FileSizeMb == 8000
\* io_write_8gb_mixed_cpu: for _ in range(10)
MixedIterations == 10

\* The statements of each step body, in program order, up to self.next.
Body(v) ==
    CASE v \in {"cpu_1cores", "cpu_1cores_halfload", "cpu_unspecified", "cpu_fraction"} ->
            <<"spin", "next">>
      [] v \in {"cpu_2cores", "cpu_2cores_halfload", "cpu_8cores",
                "cpu_8cores_underprovisioned"} ->
            <<"pmap", "next">>
      [] v = "cpu_staircase" -> <<"stair", "next">>
      [] v \in {"mem_flat_2gb", "mem_flat_8gb"} -> <<"alloc", "print_mem", "sleep", "next">>
      [] v = "mem_staircase_8gb" -> <<"chunk", "sleep", "next">>
      [] v = "mem_increasing_rss" -> <<"mmap_anon", "fill", "sleep", "close", "next">>
      [] v = "mem_spike_2gb" ->
            <<"sleep", "load_libc", "malloc", "memset", "print_mem", "hold", "free",
              "print_mem", "sleep", "next">>
      [] v = "mem_mmap_8gb_untouch" ->
            <<"tmp_enter", "make_file", "open", "mmap_file", "print_mem", "sleep",
              "close_file", "tmp_exit", "next">>
      [] v = "mem_mmap_8gb_touch_incrementally" ->
            <<"tmp_enter", "make_file", "open", "mmap_file", "touch",
              "close_file", "tmp_exit", "next">>
      [] v = "mem_mmap_8gb_touch_all" ->
            <<"tmp_enter", "make_file", "open", "mmap_file", "touch_all", "print_mem",
              "sleep", "close_file", "tmp_exit", "x0", "next">>
      [] v = "io_write_8gb" ->
            <<"sleep", "alloc", "tmp_enter", "make_file", "tmp_exit", "sleep", "next">>
      [] v = "io_write_8gb_mixed_cpu" ->
            <<"alloc", "tmp_enter", "make_file", "tmp_exit", "spin_loop", "next">>
      [] OTHER -> <<"next">>

\* The length of the list parallel_map is applied to.
NWorkers(v) ==
    CASE v \in {"cpu_2cores", "cpu_2cores_halfload"} -> 2
      [] v \in {"cpu_8cores", "cpu_8cores_underprovisioned"} -> 8
      [] OTHER -> 0

\* The statement the running variant is at.
Op == IF pc \in 1..Len(Body(cur)) THEN Body(cur)[pc] ELSE "none"

Running == cur \in Variants /\ status[cur] = "running"

\* Statement p of v lies inside the `with NamedTemporaryFile() as tmp` block.
InTmpWith(v, p) ==
    \E i \in 1..(p - 1) :
        /\ Body(v)[i] = "tmp_enter"
        /\ \A j \in (i + 1)..(p - 1) : Body(v)[j] # "tmp_exit"

\* Statement p of v lies inside the `with open(tmp.name, "r+b") as f` block.
InOpenWith(v, p) ==
    \E i \in 1..(p - 1) :
        /\ Body(v)[i] = "open"
        /\ \A j \in (i + 1)..(p - 1) : Body(v)[j] # "close_file"

TmpAfterExit_Leak(n) == n

\* Leaving the NamedTemporaryFile block closes the file, which deletes it.
TmpAfterExit(n) == n - 1

\* A scheduled length of time as a function of step_time T:
\* lin * T / 170 + flr * int(T / 10) + fix seconds.  170 is the least common
\* multiple of the divisors 2, 10 and 17 the step bodies apply to step_time.
Lin(n) == [lin |-> n, flr |-> 0, fix |-> 0]

Flr(n) == [lin |-> 0, flr |-> n, fix |-> 0]

Fix(n) == [lin |-> 0, flr |-> 0, fix |-> n]

SchedAdd(a, b) == [lin |-> a.lin + b.lin, flr |-> a.flr + b.flr, fix |-> a.fix + b.fix]

\* The scheduled length a at step_time T, in units of 1/170 second.
Scaled(a, T) == a.lin * T + 170 * (a.flr * (T \div 10) + a.fix)

\* The argument of the time.sleep statement p of v.
SleepTime(v, p) ==
    CASE v \in {"mem_flat_2gb", "mem_flat_8gb"} -> Lin(170)
      [] v = "mem_staircase_8gb" -> Lin(10)
      [] v = "mem_increasing_rss" -> Fix(10)
      [] OTHER -> Lin(85)

\* The time one execution of statement p of v is scheduled to take: the
\* argument of its time.sleep, spin_cpu or spin_cpu_percentage call.
OpTime(v, p) ==
    LET op == Body(v)[p] IN
    CASE op \in {"spin", "pmap"} -> Lin(170)
      [] op = "stair" -> Flr(1)
      [] op = "chunk" -> Lin(10)
      [] op = "touch" -> Fix(1)
      [] op = "hold" -> Fix(10)
      [] op = "spin_loop" -> Lin(17)
      [] op = "sleep" -> SleepTime(v, p)
      [] OTHER -> Fix(0)

\* Statements with no effect on files, mappings, workers or raw memory.
SimpleOps ==
    {"spin", "alloc", "print_mem", "sleep", "load_libc", "hold", "touch_all", "x0"}

SimpleOp ==
    /\ Running
    /\ Op \in SimpleOps
    /\ pc' = pc + 1
    /\ sched' = SchedAdd(sched, OpTime(cur, pc))
    /\ UNCHANGED <<pipeVars, offVars, cur, workers, tmpFiles, fOpen, mapOpen, written, iter,
                   held, raw, badUse, unflushed, filesMade, level>>

\* p = c.malloc(2_000_000_000): libc returns a block or NULL.
Malloc ==
    /\ Running
    /\ Op = "malloc"
    /\ raw' \in {"allocated", "null"}
    /\ pc' = pc + 1
    /\ UNCHANGED <<pipeVars, offVars, cur, workers, tmpFiles, fOpen, mapOpen, written, iter,
                   sched, held, badUse, unflushed, filesMade, level>>

\* c.memset(p, 66, 2_000_000_000): p is used as returned, without a test.
\* Filling through a NULL pointer ends the process.
Memset ==
    /\ Running
    /\ Op = "memset"
    /\ IF raw = "allocated"
         THEN pc' = pc + 1 /\ UNCHANGED <<pipeVars, badUse>>
         ELSE pc' = pc /\ badUse' = TRUE /\ Fail(cur)
    /\ UNCHANGED <<offVars, cur, workers, tmpFiles, fOpen, mapOpen, written, iter,
                   sched, held, raw, unflushed, filesMade, level>>

\* c.free(p)
Free ==
    /\ Running
    /\ Op = "free"
    /\ raw' = "freed"
    /\ pc' = pc + 1
    /\ UNCHANGED <<pipeVars, offVars, cur, workers, tmpFiles, fOpen, mapOpen, written, iter,
                   sched, held, badUse, unflushed, filesMade, level>>

\* The number of iterations of the for loop of a statement.
LoopCount(op) ==
    CASE op = "stair" -> StaircaseLevels
      [] op = "chunk" -> StaircaseChunks
      [] op = "fill" -> FillBlocks
      [] OTHER -> NumGigs

\* b"a" * 512_000_000: the bytes of one chunk of mem_staircase_8gb, in units
\* of 1000 bytes.
StairChunkKb == 512000

HeldAfterAppend_Replace(n) == 1

\* t.append(...): the list keeps the chunks it already holds.
HeldAfterAppend(n) == n + 1

\* cpu_staircase: the percentage argument i*10 of iteration i.
StairPercent(i) == i * 10

\* One iteration of a for loop whose body touches no file, mapping or worker.
LoopOp ==
    /\ Running
    /\ Op \in {"stair", "chunk", "fill", "touch"}
    /\ IF iter + 1 < LoopCount(Op)
         THEN iter' = iter + 1 /\ pc' = pc
         ELSE iter' = 0 /\ pc' = pc + 1
    /\ sched' = SchedAdd(sched, OpTime(cur, pc))
    /\ held' = IF Op = "chunk" THEN HeldAfterAppend(held) ELSE held
    /\ level' = IF Op = "stair" THEN StairPercent(iter) ELSE level
    /\ UNCHANGED <<pipeVars, offVars, cur, workers, tmpFiles, fOpen, mapOpen, written,
                   raw, badUse, unflushed, filesMade>>

\* with NamedTemporaryFile() as tmp: the file is created.
TmpEnter ==
    /\ Running
    /\ Op = "tmp_enter"
    /\ tmpFiles' = tmpFiles + 1
    /\ written' = 0
    /\ pc' = pc + 1
    /\ UNCHANGED <<pipeVars, offVars, resVars, cur, workers, fOpen, mapOpen, iter>>

\* x = b"1" * 1_000_000: the bytes of one f.write, in units of 1000 bytes.
ChunkKb == 1000

WriteCount_Short(size_in_mb) == size_in_mb - 1

\* for i in range(size_in_mb): the number of f.write calls.
WriteCount(size_in_mb) == size_in_mb

UnflushedAfterWrite_Flush(n) == 0

\* f.write(x) is followed by no f.flush(): one more chunk has been written
\* since f was last flushed or closed.
UnflushedAfterWrite(n) == n + 1

\* _make_file: one f.write of 1,000,000 bytes per iteration; leaving the
\* `with open(name, "wb") as f` block after the last one closes f, which
\* flushes what was written.
MakeFileWrite ==
    /\ Running
    /\ Op = "make_file"
    /\ written' = written + 1
    /\ IF written + 1 < WriteCount(FileSizeMb)
         THEN /\ pc' = pc
              /\ unflushed' = UnflushedAfterWrite(unflushed)
              /\ filesMade' = filesMade
         ELSE /\ pc' = pc + 1
              /\ unflushed' = 0
              /\ filesMade' = filesMade + 1
    /\ UNCHANGED <<pipeVars, offVars, cur, workers, tmpFiles, fOpen, mapOpen, iter,
                   sched, held, raw, badUse, level>>

\* with open(tmp.name, "r+b") as f
OpenFile ==
    /\ Running
    /\ Op = "open"
    /\ fOpen' = TRUE
    /\ pc' = pc + 1
    /\ UNCHANGED <<pipeVars, offVars, resVars, cur, workers, tmpFiles, mapOpen, written, iter>>

\* mmap.mmap(...): of the file, or anonymous.
Mmap ==
    /\ Running
    /\ Op \in {"mmap_file", "mmap_anon"}
    /\ mapOpen' = TRUE
    /\ pc' = pc + 1
    /\ UNCHANGED <<pipeVars, offVars, resVars, cur, workers, tmpFiles, fOpen, written, iter>>

\* m.close()
CloseMap ==
    /\ Running
    /\ Op = "close"
    /\ mapOpen' = FALSE
    /\ pc' = pc + 1
    /\ UNCHANGED <<pipeVars, offVars, resVars, cur, workers, tmpFiles, fOpen, written, iter>>

\* The end of the `with open(...) as f` block: f is closed, the mapping is not.
CloseFile ==
    /\ Running
    /\ Op = "close_file"
    /\ fOpen' = FALSE
    /\ pc' = pc + 1
    /\ UNCHANGED <<pipeVars, offVars, resVars, cur, workers, tmpFiles, mapOpen, written, iter>>

\* The end of the `with NamedTemporaryFile() as tmp` block.
TmpExit ==
    /\ Running
    /\ Op = "tmp_exit"
    /\ tmpFiles' = TmpAfterExit(tmpFiles)
    /\ pc' = pc + 1
    /\ UNCHANGED <<pipeVars, offVars, resVars, cur, workers, fOpen, mapOpen, written, iter>>

\* io_write_8gb_mixed_cpu: spin_cpu ends an iteration of `for _ in range(10)`.
MixedLoop ==
    /\ Running
    /\ Op = "spin_loop"
    /\ IF iter + 1 < MixedIterations
         THEN iter' = iter + 1 /\ pc' = pc - 3
         ELSE iter' = 0 /\ pc' = pc + 1
    /\ sched' = SchedAdd(sched, OpTime(cur, pc))
    /\ UNCHANGED <<pipeVars, offVars, cur, workers, tmpFiles, fOpen, mapOpen, written,
                   held, raw, badUse, unflushed, filesMade, level>>

\* parallel_map starts the execution of the function on one list element.
Spawn(i) ==
    /\ Running
    /\ Op = "pmap"
    /\ workers[i] = "idle"
    /\ workers' = [workers EXCEPT ![i] = "running"]
    /\ UNCHANGED <<pipeVars, offVars, resVars, cur, pc, tmpFiles, fOpen, mapOpen, written, iter>>

\* spin_cpu returns in worker i.
WorkerDone(i) ==
    /\ workers[i] = "running"
    /\ workers' = [workers EXCEPT ![i] = "done"]
    /\ UNCHANGED <<pipeVars, offVars, resVars, cur, pc, tmpFiles, fOpen, mapOpen, written, iter>>

\* Worker i fails.
WorkerFail(i) ==
    /\ workers[i] = "running"
    /\ workers' = [workers EXCEPT ![i] = "failed"]
    /\ UNCHANGED <<pipeVars, offVars, resVars, cur, pc, tmpFiles, fOpen, mapOpen, written, iter>>

MapComplete_Any(w) == \E i \in DOMAIN w : w[i] = "done"

\* parallel_map has a result for every element of its list.
MapComplete(w) == \A i \in DOMAIN w : w[i] = "done"

\* parallel_map returns the list of results.
MapReturn ==
    /\ Running
    /\ Op = "pmap"
    /\ MapComplete(workers)
    /\ pc' = pc + 1
    /\ sched' = SchedAdd(sched, OpTime(cur, pc))
    /\ UNCHANGED <<pipeVars, offVars, cur, workers, tmpFiles, fOpen, mapOpen, written, iter,
                   held, raw, badUse, unflushed, filesMade, level>>

\* parallel_map raises after a worker failed, with or without waiting for the
\* other workers (the step has no handler around the call).
MapRaise ==
    /\ Running
    /\ Op = "pmap"
    /\ \E i \in DOMAIN workers : workers[i] = "failed"
    /\ Fail(cur)
    /\ UNCHANGED <<bodyVars, offVars>>

\* A statement of the body raises: the enclosing with blocks are left, no
\* other cleanup runs, and the step fails.
Raise ==
    /\ Running
    /\ Op \notin {"none", "next", "pmap", "close_file", "tmp_exit"}
    /\ fOpen' = (fOpen /\ ~InOpenWith(cur, pc))
    /\ tmpFiles' = IF InTmpWith(cur, pc) THEN TmpAfterExit(tmpFiles) ELSE tmpFiles
    /\ unflushed' = 0
    /\ Fail(cur)
    /\ UNCHANGED <<offVars, cur, pc, workers, mapOpen, written, iter, sched, held, raw, badUse,
                   filesMade, level>>

\* self.next(...), the last statement of every load step.
SelfNext ==
    /\ Running
    /\ Op = "next"
    /\ Finish(cur)
    /\ pc' = pc + 1
    /\ UNCHANGED <<offVars, resVars, cur, workers, tmpFiles, fOpen, mapOpen, written, iter>>

\* The step function has returned or raised: its local variables go away,
\* and with them the list t of mem_staircase_8gb and the mapping object.
ReleaseLocals ==
    /\ cur \in Variants
    /\ status[cur] \in {"done", "failed"}
    /\ held > 0 \/ mapOpen
    /\ held' = 0
    /\ mapOpen' = FALSE
    /\ UNCHANGED <<pipeVars, offVars, cur, pc, workers, tmpFiles, fOpen, written, iter,
                   sched, raw, badUse, unflushed, filesMade, level>>

RECURSIVE Ancestors(_)
\* The steps that must have run before step s is handed over to.
Ancestors(s) == Preds(s) \cup UNION {Ancestors(p) : p \in Preds(s)}

\* The pipeline when v is the first variant of its stage to be launched.
VariantInit ==
    /\ cur \in Variants
    /\ status = [s \in Steps |->
                   IF s = cur THEN "running"
                   ELSE IF s \in Ancestors(cur) THEN "done"
                   ELSE IF Preds(s) = Preds(cur) THEN "queued" ELSE "pending"]
    /\ arrived = [t \in JoinSteps |-> IF t \in Ancestors(cur) THEN Preds(t) ELSE {}]
    /\ invoked = [s \in Steps |-> IF s = cur \/ s \in Ancestors(cur) THEN 1 ELSE 0]
    /\ pc = 1
    /\ workers = [i \in 1..NWorkers(cur) |-> "idle"]
    /\ tmpFiles = 0
    /\ fOpen = FALSE
    /\ mapOpen = FALSE
    /\ written = 0
    /\ iter = 0
    /\ ResInit
    /\ OffIdle

WorkerStep == \E i \in DOMAIN workers : Spawn(i) \/ WorkerDone(i) \/ WorkerFail(i)

VariantNext ==
    \/ SimpleOp
    \/ Malloc
    \/ Memset
    \/ Free
    \/ LoopOp
    \/ TmpEnter
    \/ MakeFileWrite
    \/ OpenFile
    \/ Mmap
    \/ CloseMap
    \/ CloseFile
    \/ TmpExit
    \/ MixedLoop
    \/ WorkerStep
    \/ MapReturn
    \/ MapRaise
    \/ Raise
    \/ SelfNext
    \/ ReleaseLocals

VariantSpec == VariantInit /\ [][VariantNext]_vars

----------------------------------------------------------------------------
(* Properties of the pipeline.                                             *)

Terminated(s) == status[s] \in {"done", "failed"}

\* C1 -- Stage barrier: no memory variant has left "pending" before every
\* CPU variant has terminated, no I/O variant before every memory variant
\* has, and end not before every I/O variant has; a join step has left
\* "pending" only when the whole fan-out set has terminated and handed over.
C1_StageBarrier ==
    /\ (\E v \in MemVariants : status[v] # "pending") => \A u \in CpuVariants : Terminated(u)
    /\ (\E v \in IoVariants : status[v] # "pending") => \A u \in MemVariants : Terminated(u)
    /\ status["end"] # "pending" => \A u \in IoVariants : Terminated(u)
    /\ status["cpu_join"] # "pending" =>
          /\ \A u \in CpuVariants : Terminated(u)
          /\ arrived["cpu_join"] = CpuVariants
    /\ status["mem_join"] # "pending" =>
          /\ \A u \in MemVariants : Terminated(u)
          /\ arrived["mem_join"] = MemVariants
    /\ status["io_join"] # "pending" =>
          /\ \A u \in IoVariants : Terminated(u)
          /\ arrived["io_join"] = IoVariants

C1_Witness ==
    /\ \E v \in IoVariants : status[v] = "running"
    /\ \E v \in IoVariants : status[v] = "queued"
    /\ \A u \in MemVariants : status[u] = "done"

\* The fixed order of the claim: CPU stage, memory stage, I/O stage, end,
\* with the fan-out and join steps between them.
StageOrder ==
    << {"start"}, CpuVariants, {"cpu_join"}, {"start_mem"}, MemVariants,
       {"mem_join"}, {"start_io"}, IoVariants, {"io_join"}, {"end"} >>

PosOf == [s \in Steps |-> CHOOSE i \in 1..Len(StageOrder) : s \in StageOrder[i]]

Earlier == [s \in Steps |-> {t \in Steps : PosOf[t] < PosOf[s]}]

\* C2 -- Stages run strictly in the order CPU, memory, I/O, end: whenever a
\* step has left "pending", every step of every earlier stage has run and
\* terminated (no two stages at once, no stage skipped, no return to an
\* earlier stage), while the steps of one stage may be in any mix of states.
C2_StagesInOrder ==
    \A s \in Steps :
        status[s] # "pending" => \A t \in Earlier[s] : Terminated(t) /\ invoked[t] = 1

C2_Witness ==
    /\ status["mem_flat_2gb"] = "done"
    /\ status["mem_flat_8gb"] = "running"
    /\ status["mem_spike_2gb"] = "queued"
    /\ status["mem_staircase_8gb"] = "failed"

\* C3 -- If no variant fails the pipeline eventually reaches Ended; end has
\* left "pending" only after io_join is done; once Ended nothing changes.
C3_ReachesEnded ==
    /\ <>(Ended \/ \E v \in Variants : status[v] = "failed")
    /\ [](status["end"] # "pending" => status["io_join"] = "done")
    /\ [][Ended => UNCHANGED vars]_vars

C3_Witness == Ended /\ status["io_join"] = "done" /\ ~(ENABLED Next)

\* C4 -- Every variant is invoked at most once (so never again after a
\* failure), and exactly once in a run that reaches Ended; the variants are
\* the 9 CPU, 8 memory and 2 I/O steps.
C4_InvokedOnce ==
    /\ Cardinality(CpuVariants) = 9
    /\ Cardinality(MemVariants) = 8
    /\ Cardinality(IoVariants) = 2
    /\ \A v \in Variants : invoked[v] <= 1
    /\ \A v \in Variants : status[v] \in {"running", "done", "failed"} => invoked[v] = 1
    /\ Ended => \A v \in Variants : invoked[v] = 1

C4_Witness ==
    /\ status["mem_spike_2gb"] = "failed"
    /\ invoked["mem_spike_2gb"] = 1
    /\ \A v \in MemVariants \ {"mem_spike_2gb"} : status[v] = "done" /\ invoked[v] = 1

\* C5 -- Failure isolation, as claimed: once all variants of a stage have
\* terminated, a failed one included, the stage's join proceeds.
C5_JoinProceedsAfterFailure ==
    /\ (\A u \in CpuVariants : Terminated(u)) => status["cpu_join"] # "pending"
    /\ (\A u \in MemVariants : Terminated(u)) => status["mem_join"] # "pending"
    /\ (\A u \in IoVariants : Terminated(u)) => status["io_join"] # "pending"

\* C6 -- A run with a failed variant never ends in successful completion:
\* Ended holds only if every variant of every stage is done, and after a
\* variant has failed no step of a later stage, end included, ever leaves
\* "pending".
C6_FailedRunNotSuccessful ==
    /\ Ended => \A v \in Variants : status[v] = "done"
    /\ \A v \in Variants :
          status[v] = "failed" =>
              \A t \in Steps : PosOf[t] > PosOf[v] => status[t] = "pending"

C6_Witness ==
    /\ status["io_write_8gb"] = "failed"
    /\ status["io_write_8gb_mixed_cpu"] = "done"
    /\ ~(ENABLED Next)
    /\ ~Ended

----------------------------------------------------------------------------
(* Properties of the variant bodies (under VariantSpec).                   *)

FanOutVariants ==
    {"cpu_2cores", "cpu_2cores_halfload", "cpu_8cores", "cpu_8cores_underprovisioned"}

WorkersIn(state) == {i \in DOMAIN workers : workers[i] = state}

\* C7 -- A fan-out call over [None] * N has exactly N executions (2 in the
\* 2-core variants, 8 in the 8-core variants), and the variant is past the
\* call (at self.next, done, or arrived at cpu_join) only when all N of them
\* have completed.
C7_FanOutBarrier ==
    cur \in FanOutVariants =>
        /\ cur \in {"cpu_2cores", "cpu_2cores_halfload"} => DOMAIN workers = 1..2
        /\ cur \in {"cpu_8cores", "cpu_8cores_underprovisioned"} => DOMAIN workers = 1..8
        /\ (Op = "next" \/ status[cur] = "done" \/ cur \in arrived["cpu_join"]) =>
              WorkersIn("done") = DOMAIN workers

C7_Witness ==
    /\ cur = "cpu_8cores_underprovisioned"
    /\ status[cur] = "done"
    /\ cur \in arrived["cpu_join"]
    /\ Cardinality(WorkersIn("done")) = 8

\* C9 -- No temporary file exists once a variant has terminated, whether it
\* reached self.next or raised part-way; outside the NamedTemporaryFile
\* block no temporary file exists, so each iteration of
\* io_write_8gb_mixed_cpu has deleted its file before the next one is made.
C9_TmpFilesDeleted ==
    cur \in Variants =>
        /\ Terminated(cur) => tmpFiles = 0
        /\ (Running /\ ~InTmpWith(cur, pc)) => tmpFiles = 0
        /\ tmpFiles <= 1

C9_Witness ==
    /\ cur = "io_write_8gb_mixed_cpu"
    /\ status[cur] = "failed"
    /\ Op = "make_file"
    /\ iter = 3
    /\ written = 5
    /\ tmpFiles = 0

\* C10 -- Mapping cleanup, as claimed: no mapping is open once the variant
\* has terminated, by handing over to the join or by raising.
C10_MappingsClosedAtTermination ==
    (cur \in Variants /\ Terminated(cur)) => ~mapOpen

----------------------------------------------------------------------------
(* Properties of the step bodies: time, memory and files.                  *)

\* Values of the step_time parameter, in seconds: a short run, and the two
\* usual ones.
StepTimes == {10, 120, 600}

\* C11 -- step_time controls every variant, as claimed: the time a variant
\* that ran to its self.next was scheduled to spin, sleep or hold is strictly
\* longer for a longer step_time, for every variant.
C11_LengthFollowsStepTime ==
    (cur \in Variants /\ status[cur] = "done") =>
        \A T1, T2 \in StepTimes : T1 < T2 => Scaled(sched, T1) < Scaled(sched, T2)

----------------------------------------------------------------------------
(* spin_cpu(secs, half_load), one statement at a time.  Time is counted in *)
(* ticks of 100 nanoseconds; spin.t is the value time.time() returns.      *)

\* The largest secs argument followed.
MaxSecs == 8
\* The most ticks that pass from one reading of the clock to the next.
MaxStep == 3
\* The most ticks a time.sleep call returns late.
MaxLate == 1
\* time.sleep(0.0000002): 0.2 microseconds are 2 ticks.
SleepTicks == 2

SpinContinue_Le(elapsed, secs) == elapsed <= secs

\* while time.time() - nu < secs
SpinContinue(elapsed, secs) == elapsed < secs

\* The call spin_cpu(secs, half_load) is entered.
SpinInit ==
    /\ \E d \in 0..MaxSecs, h \in BOOLEAN :
          spin = [pc |-> "nu", secs |-> d, half_load |-> h, t |-> 0, nu |-> 0, x |-> 0,
                  seen |-> 0, prev |-> 0, sleeps |-> 0, req |-> 0]
    /\ PipeInit
    /\ BodyIdle
    /\ PctIdle
    /\ TimedIdle

SpinOn == spin.pc # "off"

\* nu = time.time(); x = 0
SpinStart ==
    /\ SpinOn
    /\ spin.pc = "nu"
    /\ spin' = [spin EXCEPT !.pc = "while", !.nu = spin.t, !.x = 0]
    /\ UNCHANGED <<pipeVars, bodyVars, pct, timedVars>>

\* The loop test: the clock is read, later than it was read last, and
\* compared; seen is the elapsed time the test saw, prev the one it saw
\* the time before.
SpinCheck ==
    /\ SpinOn
    /\ spin.pc = "while"
    /\ \E d \in 1..MaxStep :
          LET now == spin.t + d
              elapsed == now - spin.nu
          IN spin' = [spin EXCEPT !.t = now,
                                  !.prev = spin.seen,
                                  !.seen = elapsed,
                                  !.pc = IF SpinContinue(elapsed, spin.secs)
                                           THEN "incr" ELSE "returned"]
    /\ UNCHANGED <<pipeVars, bodyVars, pct, timedVars>>

SleepsAfterIncr_Always(half_load) == TRUE

\* if half_load: the sleep follows the increment in the half-load setting only.
SleepsAfterIncr(half_load) == half_load

\* x += 1; if half_load: ...
SpinIncr ==
    /\ SpinOn
    /\ spin.pc = "incr"
    /\ spin' = [spin EXCEPT !.x = spin.x + 1,
                            !.pc = IF SleepsAfterIncr(spin.half_load)
                                     THEN "sleep" ELSE "while"]
    /\ UNCHANGED <<pipeVars, bodyVars, pct, timedVars>>

\* time.sleep(0.0000002) returns when at least the requested time has passed.
SpinSleep ==
    /\ SpinOn
    /\ spin.pc = "sleep"
    /\ \E late \in 0..MaxLate :
          spin' = [spin EXCEPT !.t = spin.t + SleepTicks + late,
                               !.sleeps = spin.sleeps + 1,
                               !.req = SleepTicks,
                               !.pc = "while"]
    /\ UNCHANGED <<pipeVars, bodyVars, pct, timedVars>>

SpinNext == SpinStart \/ SpinCheck \/ SpinIncr \/ SpinSleep

SpinSpec == SpinInit /\ [][SpinNext]_vars

\* The interpreter keeps executing the call.
FairSpinSpec == SpinSpec /\ WF_vars(SpinNext)

SpinElapsed == spin.t - spin.nu

SpinReturned == spin.pc = "returned"

\* The safety part of the spin_cpu contract.
SpinContract ==
    /\ (spin.pc \in {"incr", "sleep"} \/ (spin.pc = "while" /\ spin.x > 0)) =>
          spin.seen < spin.secs
    /\ SpinReturned =>
          /\ SpinElapsed >= spin.secs
          /\ spin.seen = SpinElapsed
          /\ spin.x > 0 => spin.prev < spin.secs

\* C12 -- spin_cpu duration contract: the call returns; it does not return
\* while the elapsed time is below secs; it stays in the loop only after a
\* test that saw an elapsed time below secs and returns at the first test
\* that sees secs reached, so that the test before the last one, one
\* iteration earlier, still saw less than secs.
C12_SpinCpuContract == []SpinContract /\ <>SpinReturned

\* C16 -- Half duty cycle, as claimed: in the half-load setting every
\* increment is followed by a sleep of about 200 microseconds (2000 ticks of
\* 100 ns, taken here as anything from 1000 to 4000 ticks), in the full-load
\* setting there is no sleep, and the call does not return before secs.
C16_HalfLoadSleeps200us ==
    SpinOn =>
        /\ spin.sleeps > 0 => spin.req \in 1000..4000
        /\ ~spin.half_load => spin.sleeps = 0
        /\ (spin.half_load /\ spin.pc \in {"while", "returned"}) => spin.sleeps = spin.x
        /\ SpinReturned => SpinElapsed >= spin.secs

\* C16, amended -- in the half-load setting every increment is followed by
\* a requested sleep of 0.2 microseconds (2 ticks), in the full-load setting
\* there is no sleep, and in both the call returns at the first loop test
\* that sees an elapsed time of at least secs.
C16_HalfLoadSleeps ==
    SpinOn =>
        /\ spin.sleeps > 0 => spin.req = SleepTicks
        /\ ~spin.half_load => spin.sleeps = 0
        /\ (spin.half_load /\ spin.pc \in {"while", "returned"}) => spin.sleeps = spin.x
        /\ spin.pc = "sleep" => spin.sleeps = spin.x - 1
        /\ SpinReturned => (SpinElapsed >= spin.secs /\ spin.seen = SpinElapsed)

C16_Witness ==
    /\ SpinReturned
    /\ spin.half_load
    /\ spin.x > 1
    /\ spin.sleeps = spin.x
    /\ spin.req = SleepTicks

C12_Witness ==
    /\ SpinReturned
    /\ spin.half_load
    /\ spin.secs = MaxSecs
    /\ spin.x > 1
    /\ SpinElapsed > spin.secs

----------------------------------------------------------------------------
(* spin_cpu_percentage(seconds, percentage), one statement at a time.  Time *)
(* is counted in hundredths of a second, so that percentage / 100.0 of a   *)
(* second is percentage ticks and one second is 100 ticks; pct.t is the    *)
(* value time.time() returns.                                              *)

\* The largest seconds argument followed.
MaxSeconds == 2

\* The percentage arguments followed.
Percentages == 0..100

PctSleep_Remainder(percentage, busy) == IF busy < 100 THEN 100 - busy ELSE 0

\* time.sleep(1 - percentage / 100.0): the argument does not depend on how
\* long the work of this second took.
PctSleep(percentage, busy) == 100 - percentage

\* The call spin_cpu_percentage(seconds, percentage) is entered.
PctInit ==
    /\ \E s \in 0..MaxSeconds, p \in Percentages :
          pct = [pc |-> "for", seconds |-> s, percentage |-> p, i |-> 0, t |-> 0,
                 start_time |-> 0, works |-> 0, busy |-> 0, slept |-> 0, tick |-> 0]
    /\ PipeInit
    /\ BodyIdle
    /\ SpinIdle
    /\ TimedIdle

PctOn == pct.pc # "off"

\* for i in range(0, seconds): start_time = time.time()
PctFor ==
    /\ PctOn
    /\ pct.pc = "for"
    /\ pct' = IF pct.i < pct.seconds
                THEN [pct EXCEPT !.pc = "while", !.start_time = pct.t]
                ELSE [pct EXCEPT !.pc = "returned"]
    /\ UNCHANGED <<pipeVars, bodyVars, spin, timedVars>>

\* while (time.time() - start_time) < (percentage / 100.0): the clock is
\* read, and the work of this second ends when the test fails; busy is the
\* sum of the lengths of the work phases.
PctWhile ==
    /\ PctOn
    /\ pct.pc = "while"
    /\ \E d \in 0..MaxStep :
          LET now == pct.t + d
              elapsed == now - pct.start_time
          IN pct' = IF elapsed < pct.percentage
                      THEN [pct EXCEPT !.t = now, !.pc = "work"]
                      ELSE [pct EXCEPT !.t = now, !.pc = "sleep",
                                       !.busy = pct.busy + elapsed]
    /\ UNCHANGED <<pipeVars, bodyVars, spin, timedVars>>

\* a = math.sqrt(64 * 64 * 64 * 64 * 64)
PctWork ==
    /\ PctOn
    /\ pct.pc = "work"
    /\ pct' = [pct EXCEPT !.pc = "while", !.works = 1]
    /\ UNCHANGED <<pipeVars, bodyVars, spin, timedVars>>

\* time.sleep(...) returns when at least the requested time has passed; slept
\* is the sum of the requested times, tick the length of the second just ended.
PctSleeping ==
    /\ PctOn
    /\ pct.pc = "sleep"
    /\ \E late \in 0..MaxLate :
          LET req == PctSleep(pct.percentage, pct.t - pct.start_time)
              now == pct.t + req + late
          IN pct' = [pct EXCEPT !.t = now,
                                !.slept = pct.slept + req,
                                !.tick = now - pct.start_time,
                                !.i = pct.i + 1,
                                !.pc = "for"]
    /\ UNCHANGED <<pipeVars, bodyVars, spin, timedVars>>

PctNext == PctFor \/ PctWhile \/ PctWork \/ PctSleeping

PctSpec == PctInit /\ [][PctNext]_vars

PctReturned == pct.pc = "returned"

----------------------------------------------------------------------------
(* Properties of the I/O and memory variants.                              *)

IoWriters == {"io_write_8gb", "io_write_8gb_mixed_cpu"}

\* The statement the running variant has just completed.
PrevOp == IF pc \in 2..(Len(Body(cur)) + 1) THEN Body(cur)[pc - 1] ELSE "none"

\* C14 -- File write size: when _make_file has completed in io_write_8gb or
\* in an iteration of io_write_8gb_mixed_cpu, the temporary file exists and
\* holds exactly 8,000,000,000 bytes (8,000,000 units of 1000 bytes), written
\* as chunks of one size; once the NamedTemporaryFile block is left the file
\* is deleted; and every completed write was a full one.
C14_FileWriteSize ==
    cur \in IoWriters =>
        /\ PrevOp = "make_file" =>
              /\ written * ChunkKb = 8000000
              /\ tmpFiles = 1
        /\ PrevOp = "tmp_exit" => tmpFiles = 0
        /\ Op = "make_file" => written * ChunkKb < 8000000
        /\ filesMade > 0 /\ Op # "make_file" => written * ChunkKb = 8000000

C14_Witness ==
    /\ cur = "io_write_8gb_mixed_cpu"
    /\ status[cur] = "running"
    /\ iter = 9
    /\ PrevOp = "tmp_exit"
    /\ filesMade = 10
    /\ written = FileSizeMb
    /\ tmpFiles = 0

\* C15 -- cpu_staircase, as claimed: ten levels, each scheduled for
\* int(step_time/10) seconds, each 10 points above the one before, and the
\* last one at 100%.
C15_StaircaseEndsAt100 ==
    cur = "cpu_staircase" =>
        /\ Op = "stair" => sched = Flr(iter)
        /\ (Op = "stair" /\ iter > 0) => level \in {(iter - 1) * 10, iter * 10}
        /\ PrevOp = "stair" => sched = Flr(StaircaseLevels) /\ level = 100

\* The chunks mem_staircase_8gb has appended when it is at its statement.
ChunksAppended == IF Op = "chunk" THEN iter ELSE StaircaseChunks

\* C17 -- Staircase memory allocation: while mem_staircase_8gb runs, after
\* its i-th iteration it holds exactly i chunks of 512,000,000 bytes and has
\* scheduled i sleeps of step_time/17, so that what it holds never decreases;
\* after the loop it holds all 16 chunks; and once the step has ended, by
\* self.next or by raising, it holds either all the chunks it had or none.
C17_StaircaseHeld ==
    cur = "mem_staircase_8gb" =>
        /\ status[cur] = "running" =>
              /\ held * StairChunkKb = ChunksAppended * 512000
              /\ Op = "chunk" => sched = Lin(10 * iter)
              /\ Op = "sleep" => sched = Lin(10 * StaircaseChunks)
              /\ Op = "next" => sched = Lin(170)
        /\ Terminated(cur) => held \in {0, ChunksAppended}

C17_Witness ==
    /\ cur = "mem_staircase_8gb"
    /\ status[cur] = "running"
    /\ Op = "sleep"
    /\ held = StaircaseChunks
    /\ sched = Lin(160)

\* C18 -- Spike memory variant, as claimed: once mem_spike_2gb has
\* terminated, by self.next or by failing, a block that malloc returned has
\* been freed, and no fill was ever applied to a block that was not allocated.
C18_RawBlockReleased ==
    cur = "mem_spike_2gb" =>
        /\ (Terminated(cur) /\ raw # "none") => raw \in {"freed", "null"}
        /\ ~badUse

\* The order of io_write_8gb: nothing is written before the first sleep of
\* step_time/2 is over, the whole file is written before the second sleep
\* of step_time/2 begins, and self.next follows the second sleep.
IoWriteOrder ==
    /\ pc = 1 => (sched = Fix(0) /\ filesMade = 0 /\ written = 0)
    /\ Op \in {"alloc", "tmp_enter", "make_file"} => (sched = Lin(85) /\ filesMade = 0)
    /\ Op = "tmp_exit" => (sched = Lin(85) /\ filesMade = 1 /\ written = FileSizeMb)
    /\ (Op = "sleep" /\ pc > 1) => (sched = Lin(85) /\ filesMade = 1 /\ tmpFiles = 0)
    /\ Op = "next" => (sched = Lin(170) /\ filesMade = 1)

\* C19 -- File I/O pattern (a), as claimed: sleep, write, sleep, in this
\* order, and no chunk is written while an earlier chunk of the file has
\* not been followed by a flush.
C19_FlushAfterEachChunk ==
    (cur = "io_write_8gb" /\ status[cur] = "running") =>
        /\ IoWriteOrder
        /\ (Op = "make_file" /\ written > 0) => unflushed = 0

\* C19, amended -- sleep, write, sleep, in this order; the chunks are written
\* one after the other with no flush in between, and the file is flushed
\* once, when it is closed after the last chunk.
C19_FlushOnlyAtClose ==
    (cur = "io_write_8gb" /\ status[cur] = "running") =>
        /\ IoWriteOrder
        /\ Op = "make_file" => unflushed = written
        /\ Op # "make_file" => unflushed = 0

C19_Witness ==
    /\ cur = "io_write_8gb"
    /\ status[cur] = "running"
    /\ Op = "make_file"
    /\ written = FileSizeMb - 1
    /\ unflushed = written
    /\ sched = Lin(85)

----------------------------------------------------------------------------
(* A run of the flow on the wall clock.  The clock counts units of 1/170   *)
(* second; start, the joins and end take no time; a load variant takes the *)
(* time its body schedules plus the time its unscheduled work (writing,    *)
(* filling, reading) happens to take.                                      *)

\* The most seconds the unscheduled work of a variant takes.
MaxExtra == 2

\* How often statement p of v is executed.
Repeats(v, p) ==
    LET op == Body(v)[p] IN
    CASE op \in {"stair", "chunk", "fill", "touch"} -> LoopCount(op)
      [] op = "spin_loop" -> MixedIterations
      [] OTHER -> 1

SchedTimes(a, n) == [lin |-> a.lin * n, flr |-> a.flr * n, fix |-> a.fix * n]

RECURSIVE ScheduledFrom(_, _)
\* The time statements p, p + 1, ... of v schedule.
ScheduledFrom(v, p) ==
    IF p > Len(Body(v)) THEN Fix(0)
    ELSE SchedAdd(SchedTimes(OpTime(v, p), Repeats(v, p)), ScheduledFrom(v, p + 1))

\* The time the body of v schedules.
Scheduled(v) == ScheduledFrom(v, 1)

\* v does work whose length no argument fixes.
HasWork(v) == \E p \in 1..Len(Body(v)) : Body(v)[p] \in {"make_file", "fill", "touch", "touch_all"}

\* The lengths v can have at step_time T.
Durations(v, T) ==
    {Scaled(Scheduled(v), T) + 170 * e : e \in IF HasWork(v) THEN 0..MaxExtra ELSE {0}}

MayStart_OneAtATime(s) == \A v \in Variants : status[v] # "running"

\* self.next(a, b, ...) hands over to all its targets: a queued step waits
\* for no sibling.
MayStart(s) == TRUE

TimedInit ==
    /\ PipeInit
    /\ BodyIdle
    /\ SpinIdle
    /\ PctIdle
    /\ timing = TRUE
    /\ spin_secs \in StepTimes
    /\ clock = 0
    /\ startAt = [v \in Variants |-> -1]
    /\ finishAt = [v \in Variants |-> -1]

\* A queued step starts; a variant will run for one of its lengths.
TimedLaunch(s) ==
    /\ timing
    /\ MayStart(s)
    /\ Launch(s)
    /\ IF s \in Variants
         THEN /\ startAt' = [startAt EXCEPT ![s] = clock]
              /\ \E d \in Durations(s, spin_secs) :
                    finishAt' = [finishAt EXCEPT ![s] = clock + d]
         ELSE UNCHANGED <<startAt, finishAt>>
    /\ UNCHANGED <<bodyVars, spin, pct, timing, spin_secs, clock>>

\* A step reaches its self.next: a variant when its time is over.
TimedFinish(s) ==
    /\ timing
    /\ s \in Variants => clock = finishAt[s]
    /\ Finish(s)
    /\ UNCHANGED <<bodyVars, offVars>>

\* Time passes until the next variant is over, while no step can start or
\* finish at the current time.
Advance ==
    /\ timing
    /\ \A s \in Steps : ~(status[s] = "queued" /\ MayStart(s))
    /\ \A s \in Steps \ Variants : status[s] # "running"
    /\ \A v \in Variants : status[v] = "running" => finishAt[v] > clock
    /\ \E v \in Variants :
          /\ status[v] = "running"
          /\ \A w \in Variants : status[w] = "running" => finishAt[v] <= finishAt[w]
          /\ clock' = finishAt[v]
    /\ UNCHANGED <<pipeVars, bodyVars, spin, pct, timing, spin_secs, startAt, finishAt>>

TimedNext == (\E s \in Steps : TimedLaunch(s) \/ TimedFinish(s)) \/ Advance

TimedSpec == TimedInit /\ [][TimedNext]_vars

\* The flow, followed on the wall clock or inside one of its variants.
TimedVariantNext == TimedNext \/ VariantNext

TimedVariantSpec == (TimedInit \/ VariantInit) /\ [][TimedVariantNext]_vars

\* The stages in their order, each with the join that ends it.
Stages == <<CpuVariants, MemVariants, IoVariants>>

StageJoin == <<"cpu_join", "mem_join", "io_join">>

\* The time v ran for.
DurOf(v) == finishAt[v] - startAt[v]

SetMax(S) == CHOOSE x \in S : \A y \in S : y <= x

\* The longest of the durations of the variants of stage k.
StageMax(k) == SetMax({DurOf(v) : v \in Stages[k]})

RECURSIVE SumOfMaxima(_)
\* The sum of the longest durations of stages 1..k.
SumOfMaxima(k) == IF k = 0 THEN 0 ELSE SumOfMaxima(k - 1) + StageMax(k)

\* Stages in parallel inside, in sequence between them: every variant of a
\* stage starts when the stage before has taken the longest of its variants'
\* durations, the join of a stage runs when the stage has taken the longest
\* of its own, and the run ends at the sum of the three maxima.
StageTimes ==
    timing =>
        /\ \A k \in 1..3 : \A v \in Stages[k] :
              startAt[v] >= 0 => startAt[v] = SumOfMaxima(k - 1)
        /\ \A k \in 1..3 :
              status[StageJoin[k]] \in {"queued", "running"} => clock = SumOfMaxima(k)
        /\ Ended => clock = SumOfMaxima(3)

\* io_write_8gb_mixed_cpu: before the write of iteration iter there have been
\* iter full writes and iter spins of step_time/10; the spin of the iteration
\* starts with iter + 1 full writes made and the file closed and deleted;
\* self.next follows 10 writes and 10 spins.
MixedAlternates ==
    (cur = "io_write_8gb_mixed_cpu" /\ status[cur] = "running") =>
        /\ iter < MixedIterations
        /\ Op \in {"tmp_enter", "make_file"} =>
              (filesMade = iter /\ sched = Lin(17 * iter))
        /\ Op \in {"tmp_exit", "spin_loop"} =>
              (filesMade = iter + 1 /\ sched = Lin(17 * iter) /\ written = FileSizeMb)
        /\ Op = "spin_loop" => (tmpFiles = 0 /\ unflushed = 0)
        /\ Op = "next" => (filesMade = MixedIterations /\ sched = Lin(170))

====
